---------------------------- MODULE Spec2Model ----------------------------
(***************************************************************************)
(* The cooperative executor of src/task (executor.rs, mod.rs) and the      *)
(* keyboard interrupt-to-async bridge (keyboard.rs), on one core: a main   *)
(* thread that creates and spawns tasks and then runs Executor::run, and   *)
(* interrupt handlers that preempt it between any two of its steps while   *)
(* interrupt delivery is enabled and run to completion.                    *)
(***************************************************************************)
EXTENDS Integers, Sequences, FiniteSets, TLC

\* ---- bounds of the model -------------------------------------------------
MaxTasks == 3          \* Task::new calls explored
MaxPosts == 3          \* add_scancode calls explored
TaskQueueCap == 2      \* ArrayQueue::new(100) of executor.rs:17, scaled down
ScancodeQueueCap == 2  \* ArrayQueue::new(100) of keyboard.rs:37, scaled down

IdSpace == 8           \* number of TaskId values: 2^64 of mod.rs:36, scaled down

Scancodes == {30, 48}  \* raw bytes an interrupt may deliver (0x1E, 0x30)
Kinds == {"future", "keyboard"}

None == <<>>
Some(x) == <<x>>
Range(s) == {s[i] : i \in 1..Len(s)}
IsPrefix(s, t) == Len(s) <= Len(t) /\ \A i \in 1..Len(s) : s[i] = t[i]
Without(f, k) == [x \in DOMAIN f \ {k} |-> f[x]]

VARIABLES
    NEXT_ID,         \* mod.rs: static NEXT_ID
    created,         \* tasks returned by Task::new and not yet spawned: id -> Task
    tasks,           \* Executor.tasks: id -> Task (kind and resumption point)
    task_queue,      \* Executor.task_queue, shared with every TaskWaker
    waker_cache,     \* Executor.waker_cache: id -> task_id the waker is bound to
    clones,          \* task_ids of waker clones a future handed to an interrupt source
    scq_init,        \* SCANCODE_QUEUE is initialized
    scancode_queue,  \* contents of SCANCODE_QUEUE
    WAKER,           \* keyboard.rs: static WAKER, None or Some(task_id)
    intEnabled,      \* the CPU's interrupt flag
    pc,              \* position of the main thread
    cur,             \* the task being polled, None or Some(id)
    fatal,           \* "none", or the message of the panic that stopped the kernel
    log,             \* diagnostics printed by add_scancode, in order
    posted,          \* scancodes add_scancode pushed successfully, in order
    consumed,        \* scancodes poll_next returned, in order
    spawnOrder,      \* ids in the order spawn was called
    pollOrder,       \* ids in the order of their first poll
    completed,       \* ids whose poll returned Poll::Ready
    skipped,         \* ids run_ready_tasks popped and found not in tasks
    woken,           \* ids whose wake handle was invoked and whose id was not popped since
    credit,          \* per task in tasks: 1 for its spawn + wake invocations - polls begun
    made             \* per task id: the number of calls of TaskWaker::new for it

vars == <<NEXT_ID, created, tasks, task_queue, waker_cache, clones, scq_init,
          scancode_queue, WAKER, intEnabled, pc, cur, fatal, log, posted,
          consumed, spawnOrder, pollOrder, completed, skipped, woken, credit, made>>

execVars == <<tasks, task_queue, waker_cache, cur, pollOrder, completed, skipped, woken,
              credit, made>>
bridgeVars == <<scq_init, scancode_queue, WAKER, log, posted, consumed>>
setupVars == <<NEXT_ID, created, spawnOrder>>

Init ==
    /\ NEXT_ID = 0
    /\ created = <<>>
    /\ tasks = <<>>
    /\ task_queue = <<>>
    /\ waker_cache = <<>>
    /\ clones = {}
    /\ scq_init = FALSE
    /\ scancode_queue = <<>>
    /\ WAKER = None
    /\ intEnabled = TRUE
    /\ pc = "setup"
    /\ cur = None
    /\ fatal = "none"
    /\ log = <<>>
    /\ posted = <<>>
    /\ consumed = <<>>
    /\ spawnOrder = <<>>
    /\ pollOrder = <<>>
    /\ completed = {}
    /\ skipped = {}
    /\ woken = {}
    /\ credit = [id \in DOMAIN tasks |-> 1]
    /\ made = <<>>

\* ---- crossbeam ArrayQueue ------------------------------------------------
\* Faulty push: a full queue makes room by discarding its oldest element.
ArrayQueuePush_Overwrite(q, cap, x) ==
    IF Len(q) < cap THEN [ok |-> TRUE, q |-> Append(q, x)]
                    ELSE [ok |-> TRUE, q |-> Append(Tail(q), x)]

\* Faulty push: the element is put at the head of the queue.
ArrayQueuePush_Front(q, cap, x) ==
    IF Len(q) < cap THEN [ok |-> TRUE, q |-> <<x>> \o q]
                    ELSE [ok |-> FALSE, q |-> q]

\* push: Ok and appended when below capacity, Err and unchanged when full.
ArrayQueuePush(q, cap, x) ==
    IF Len(q) < cap THEN [ok |-> TRUE, q |-> Append(q, x)]
                    ELSE [ok |-> FALSE, q |-> q]

\* Faulty pop: the newest element instead of the oldest.
ArrayQueuePop_Lifo(q) ==
    IF q = <<>> THEN [ok |-> FALSE, q |-> q, v |-> None]
                ELSE [ok |-> TRUE, q |-> SubSeq(q, 1, Len(q) - 1), v |-> Some(q[Len(q)])]

\* pop: the oldest element, or Err on the empty queue.
ArrayQueuePop(q) ==
    IF q = <<>> THEN [ok |-> FALSE, q |-> q, v |-> None]
                ELSE [ok |-> TRUE, q |-> Tail(q), v |-> Some(Head(q))]

\* ---- conquer_once OnceCell ------------------------------------------------
\* Faulty cell: try_get hands out a queue whether or not it was initialized.
TryGet_Always(init) == TRUE

\* SCANCODE_QUEUE.try_get(): Ok exactly when the cell has been initialized.
TryGet(init) == init

\* ---- mod.rs ----------------------------------------------------------------
\* TaskId::new: NEXT_ID.fetch_add(1), which wraps at the width of the counter.
TaskIdNew(next) == [id |-> next, next |-> (next + 1) % IdSpace]

\* Task::new(future): a fresh id and the future at its first resumption point.
TaskNew(kind) ==
    /\ pc = "setup" /\ fatal = "none"
    /\ Cardinality(DOMAIN created) + Len(spawnOrder) < MaxTasks
    /\ LET t == TaskIdNew(NEXT_ID) IN
        /\ NEXT_ID' = t.next
        /\ created' = (t.id :> [kind |-> kind, at |-> "start"]) @@ created
    /\ UNCHANGED <<spawnOrder, intEnabled, pc, fatal, clones>>
    /\ UNCHANGED execVars /\ UNCHANGED bridgeVars

\* ---- executor.rs -------------------------------------------------------------
\* Faulty push: a full ready-queue drops the id without a panic.
PushExpect_Drop(q, id, msg) ==
    [task_queue |-> ArrayQueuePush(q, TaskQueueCap, id).q, fatal |-> "none"]

\* task_queue.push(id).expect(msg): the id appended, or a panic when the queue is full.
PushExpect(q, id, msg) ==
    LET r == ArrayQueuePush(q, TaskQueueCap, id) IN
    [task_queue |-> r.q, fatal |-> IF r.ok THEN "none" ELSE msg]

\* Faulty wake: the id is never pushed.
wake_task_Dropped(q, task_id) == [task_queue |-> q, fatal |-> "none"]

\* Faulty wake: wake and wake_by_ref each push, so one invocation pushes twice.
wake_task_Twice(q, task_id) ==
    PushExpect(PushExpect(q, task_id, "task_queue full").task_queue, task_id,
               "task_queue full")

\* TaskWaker::wake_task
wake_task(q, task_id) == PushExpect(q, task_id, "task_queue full")

\* TaskWaker::new: a handle bound to one task id (and to the executor's queue).
TaskWakerNew(task_id) == [task_id |-> task_id]

\* Executor::spawn: insert into tasks (panic on a duplicate id), then push the id.
Spawn(id) ==
    /\ pc = "setup" /\ fatal = "none"
    /\ id \in DOMAIN created
    /\ tasks' = (id :> created[id]) @@ tasks
    /\ created' = Without(created, id)
    /\ spawnOrder' = Append(spawnOrder, id)
    /\ IF id \in DOMAIN tasks
         THEN /\ fatal' = "task with same ID already in tasks"
              /\ task_queue' = task_queue
              /\ credit' = credit
         ELSE LET r == PushExpect(task_queue, id, "queue full") IN
              /\ fatal' = r.fatal
              /\ task_queue' = r.task_queue
              /\ credit' = (id :> 1) @@ credit
    /\ UNCHANGED <<NEXT_ID, waker_cache, cur, pollOrder, completed, skipped, woken,
                   made, intEnabled, pc, clones>>
    /\ UNCHANGED bridgeVars

\* main calls Executor::run: the loop starts with run_ready_tasks. run never
\* returns, so a task created and not spawned by now never runs: it leaves
\* the model.
Run ==
    /\ pc = "setup" /\ fatal = "none"
    /\ pc' = "drain"
    /\ created' = <<>>
    /\ UNCHANGED <<intEnabled, fatal, clones, NEXT_ID, spawnOrder>>
    /\ UNCHANGED execVars /\ UNCHANGED bridgeVars

\* run_ready_tasks: task_queue.pop() fails, the while loop ends and run goes on
\* to sleep_if_idle.
DrainEmpty ==
    /\ pc = "drain" /\ fatal = "none"
    /\ ~ArrayQueuePop(task_queue).ok
    /\ pc' = "sleep_disable"
    /\ UNCHANGED <<intEnabled, fatal, clones>>
    /\ UNCHANGED execVars /\ UNCHANGED bridgeVars /\ UNCHANGED setupVars

\* run_ready_tasks: the popped id is not in tasks, continue.
PopStale ==
    /\ pc = "drain" /\ fatal = "none"
    /\ LET r == ArrayQueuePop(task_queue) IN
        /\ r.ok
        /\ r.v[1] \notin DOMAIN tasks
        /\ task_queue' = r.q
        /\ skipped' = skipped \cup {r.v[1]}
        /\ woken' = woken \ {r.v[1]}
    /\ UNCHANGED <<tasks, waker_cache, cur, pollOrder, completed, credit, made>>
    /\ UNCHANGED <<intEnabled, pc, fatal, clones>>
    /\ UNCHANGED bridgeVars /\ UNCHANGED setupVars

\* Faulty cache: insert instead of entry().or_insert_with(), a new waker on
\* every poll.
CacheWaker_Always(cache, task_id) ==
    [cache |-> (task_id :> TaskWakerNew(task_id)) @@ cache, built |-> {task_id}]

\* waker_cache.entry(task_id).or_insert_with(|| TaskWaker::new(task_id, queue))
CacheWaker(cache, task_id) ==
    IF task_id \in DOMAIN cache THEN [cache |-> cache, built |-> {}]
    ELSE [cache |-> (task_id :> TaskWakerNew(task_id)) @@ cache, built |-> {task_id}]

\* run_ready_tasks: the popped id is a live task; its waker is fetched or made
\* and task.poll(&mut context) begins.
PopPoll ==
    /\ pc = "drain" /\ fatal = "none"
    /\ LET r == ArrayQueuePop(task_queue) IN
        /\ r.ok
        /\ r.v[1] \in DOMAIN tasks
        /\ task_queue' = r.q
        /\ LET c == CacheWaker(waker_cache, r.v[1]) IN
            /\ waker_cache' = c.cache
            /\ made' = [id \in DOMAIN made \cup c.built |->
                           IF id \in DOMAIN made
                             THEN made[id] + Cardinality(c.built \cap {id})
                             ELSE 1]
        /\ cur' = r.v
        /\ woken' = woken \ {r.v[1]}
        /\ credit' = [credit EXCEPT ![r.v[1]] = @ - 1]
        /\ pollOrder' = IF r.v[1] \in Range(pollOrder) THEN pollOrder
                        ELSE Append(pollOrder, r.v[1])
    /\ pc' = "poll"
    /\ UNCHANGED <<tasks, completed, skipped, intEnabled, fatal, clones>>
    /\ UNCHANGED bridgeVars /\ UNCHANGED setupVars

\* Faulty retirement: waker_cache.clear() instead of remove(&task_id).
RetireCache_Clear(cache, task_id) == <<>>

\* Faulty retirement: the cached waker is left behind.
RetireCache_Keep(cache, task_id) == cache

\* Poll::Ready(()): tasks.remove(&task_id); waker_cache.remove(&task_id).
RetireTasks(t, task_id) == Without(t, task_id)
RetireCache(cache, task_id) == Without(cache, task_id)

\* task.poll of an arbitrary future returns Poll::Ready: the task is retired.
PollReady ==
    /\ pc = "poll" /\ fatal = "none"
    /\ LET id == cur[1] IN
        /\ tasks[id].kind = "future"
        /\ tasks' = RetireTasks(tasks, id)
        /\ waker_cache' = RetireCache(waker_cache, id)
        /\ completed' = completed \cup {id}
        /\ credit' = Without(credit, id)
    /\ cur' = None
    /\ pc' = "drain"
    /\ UNCHANGED <<task_queue, pollOrder, skipped, woken, made, intEnabled, fatal, clones>>
    /\ UNCHANGED bridgeVars /\ UNCHANGED setupVars

\* Faulty Poll::Pending arm: the task is put back on the queue at once, as a
\* busy-polling executor does, whether or not anything woke it.
PollPending_Requeue ==
    /\ pc = "poll" /\ fatal = "none"
    /\ LET id == cur[1] IN
        /\ tasks[id].kind = "future"
        /\ tasks' = [tasks EXCEPT ![id].at = "suspended"]
        /\ clones' = clones \cup {waker_cache[id]}
        /\ task_queue' = ArrayQueuePush(task_queue, TaskQueueCap, id).q
    /\ cur' = None
    /\ pc' = "drain"
    /\ UNCHANGED <<waker_cache, pollOrder, completed, skipped, woken,
                   credit, made, intEnabled, fatal>>
    /\ UNCHANGED bridgeVars /\ UNCHANGED setupVars

\* task.poll of an arbitrary future returns Poll::Pending, having handed a clone
\* of the context's waker to whatever will wake it.
PollPending ==
    /\ pc = "poll" /\ fatal = "none"
    /\ LET id == cur[1] IN
        /\ tasks[id].kind = "future"
        /\ tasks' = [tasks EXCEPT ![id].at = "suspended"]
        /\ clones' = clones \cup {waker_cache[id]}
    /\ cur' = None
    /\ pc' = "drain"
    /\ UNCHANGED <<task_queue, waker_cache, pollOrder, completed, skipped, woken,
                   credit, made, intEnabled, fatal>>
    /\ UNCHANGED bridgeVars /\ UNCHANGED setupVars

\* ---- keyboard.rs: the consuming task ----------------------------------------
\* Where the current poll of the print_keypresses task stands.
KbAt(at) ==
    /\ pc = "poll" /\ fatal = "none"
    /\ tasks[cur[1]].kind = "keyboard"
    /\ tasks[cur[1]].at \in at

\* The poll goes on at resumption point `at`.
KbGoto(at) ==
    /\ tasks' = [tasks EXCEPT ![cur[1]].at = at]
    /\ UNCHANGED <<cur, pc>>

\* poll_next returned Poll::Pending, so did the task's poll: back to run_ready_tasks.
KbPending ==
    /\ tasks' = [tasks EXCEPT ![cur[1]].at = "parked"]
    /\ cur' = None
    /\ pc' = "drain"

\* Faulty ScancodeStream::new: every construction installs a fresh queue.
StreamNew_Reinit ==
    /\ KbAt({"start"})
    /\ scq_init' = TRUE
    /\ scancode_queue' = <<>>
    /\ fatal' = fatal
    /\ KbGoto("next")
    /\ UNCHANGED <<task_queue, waker_cache, pollOrder, completed, skipped, woken, credit,
                   made>>
    /\ UNCHANGED <<WAKER, log, posted, consumed, intEnabled, clones>>
    /\ UNCHANGED setupVars

\* print_keypresses, first poll: ScancodeStream::new, try_init_once(...).expect(...).
StreamNew ==
    /\ KbAt({"start"})
    /\ IF scq_init
         THEN /\ fatal' = "ScancodeStream::new should only be called once"
              /\ UNCHANGED <<scq_init, scancode_queue, tasks, cur, pc>>
         ELSE /\ scq_init' = TRUE
              /\ scancode_queue' = <<>>
              /\ fatal' = fatal
              /\ KbGoto("next")
    /\ UNCHANGED <<task_queue, waker_cache, pollOrder, completed, skipped, woken, credit,
                   made>>
    /\ UNCHANGED <<WAKER, log, posted, consumed, intEnabled, clones>>
    /\ UNCHANGED setupVars

\* Faulty poll_next: an uninitialized queue is logged and the poll is pending.
PollNextFast_Logs ==
    /\ KbAt({"next", "parked"})
    /\ IF ~TryGet(scq_init)
         THEN /\ log' = Append(log, "scancode queue uninitialized")
              /\ KbPending
              /\ UNCHANGED <<scancode_queue, consumed>>
         ELSE LET r == ArrayQueuePop(scancode_queue) IN
              /\ log' = log
              /\ scancode_queue' = r.q
              /\ IF r.ok THEN /\ consumed' = Append(consumed, r.v[1])
                              /\ KbGoto("next")
                         ELSE /\ consumed' = consumed
                              /\ KbGoto("register")
    /\ UNCHANGED <<task_queue, waker_cache, pollOrder, completed, skipped, woken, credit,
                   made>>
    /\ UNCHANGED <<scq_init, WAKER, posted, intEnabled, fatal, clones>>
    /\ UNCHANGED setupVars

\* poll_next, lines 59-66: try_get().expect(...), then the fast-path pop. A
\* scancode goes to the loop body of print_keypresses, which asks for the next.
PollNextFast ==
    /\ KbAt({"next", "parked"})
    /\ IF ~TryGet(scq_init)
         THEN /\ fatal' = "scancode queue not initialized"
              /\ UNCHANGED <<scancode_queue, consumed, tasks, cur, pc>>
         ELSE LET r == ArrayQueuePop(scancode_queue) IN
              /\ fatal' = fatal
              /\ scancode_queue' = r.q
              /\ IF r.ok THEN /\ consumed' = Append(consumed, r.v[1])
                              /\ KbGoto("next")
                         ELSE /\ consumed' = consumed
                              /\ KbGoto("register")
    /\ UNCHANGED <<task_queue, waker_cache, pollOrder, completed, skipped, woken, credit,
                   made>>
    /\ UNCHANGED <<scq_init, WAKER, log, posted, intEnabled, clones>>
    /\ UNCHANGED setupVars

\* poll_next, line 70: WAKER.register(cx.waker()) overwrites the slot.
PollNextRegister ==
    /\ KbAt({"register"})
    /\ WAKER' = Some(waker_cache[cur[1]])
    /\ KbGoto("recheck")
    /\ UNCHANGED <<task_queue, waker_cache, pollOrder, completed, skipped, woken, credit,
                   made>>
    /\ UNCHANGED <<scq_init, scancode_queue, log, posted, consumed>>
    /\ UNCHANGED <<intEnabled, fatal, clones>>
    /\ UNCHANGED setupVars

\* Faulty poll_next: Poll::Pending right after the registration, no second pop.
PollNextRecheck_NoRecheck ==
    /\ KbAt({"recheck"})
    /\ KbPending
    /\ UNCHANGED <<task_queue, waker_cache, pollOrder, completed, skipped, woken, credit,
                   made>>
    /\ UNCHANGED bridgeVars
    /\ UNCHANGED <<intEnabled, fatal, clones>>
    /\ UNCHANGED setupVars

\* poll_next, lines 71-78: the second pop. Ok goes on to WAKER.take(), Err
\* returns Poll::Pending.
PollNextRecheck ==
    /\ KbAt({"recheck"})
    /\ LET r == ArrayQueuePop(scancode_queue) IN
        /\ scancode_queue' = r.q
        /\ IF r.ok THEN /\ consumed' = Append(consumed, r.v[1])
                        /\ KbGoto("take")
                   ELSE /\ consumed' = consumed
                        /\ KbPending
    /\ UNCHANGED <<task_queue, waker_cache, pollOrder, completed, skipped, woken, credit,
                   made>>
    /\ UNCHANGED <<scq_init, WAKER, log, posted>>
    /\ UNCHANGED <<intEnabled, fatal, clones>>
    /\ UNCHANGED setupVars

\* Faulty poll_next: the scancode of the second pop is returned with the waker
\* left registered.
PollNextTake_Keep ==
    /\ KbAt({"take"})
    /\ WAKER' = WAKER
    /\ KbGoto("next")
    /\ UNCHANGED <<task_queue, waker_cache, pollOrder, completed, skipped, woken, credit,
                   made>>
    /\ UNCHANGED <<scq_init, scancode_queue, log, posted, consumed>>
    /\ UNCHANGED <<intEnabled, fatal, clones>>
    /\ UNCHANGED setupVars

\* poll_next, lines 74-75: WAKER.take(), then Poll::Ready(Some(scancode)).
PollNextTake ==
    /\ KbAt({"take"})
    /\ WAKER' = None
    /\ KbGoto("next")
    /\ UNCHANGED <<task_queue, waker_cache, pollOrder, completed, skipped, woken, credit,
                   made>>
    /\ UNCHANGED <<scq_init, scancode_queue, log, posted, consumed>>
    /\ UNCHANGED <<intEnabled, fatal, clones>>
    /\ UNCHANGED setupVars

\* ---- executor.rs: sleep_if_idle ----------------------------------------------
\* Faulty sleep_if_idle: the emptiness check runs with interrupts still enabled.
SleepDisable_NoDisable ==
    /\ pc = "sleep_disable" /\ fatal = "none"
    /\ intEnabled' = intEnabled
    /\ pc' = "sleep_check"
    /\ UNCHANGED <<fatal, clones>>
    /\ UNCHANGED execVars /\ UNCHANGED bridgeVars /\ UNCHANGED setupVars

\* interrupts::disable()
SleepDisable ==
    /\ pc = "sleep_disable" /\ fatal = "none"
    /\ intEnabled' = FALSE
    /\ pc' = "sleep_check"
    /\ UNCHANGED <<fatal, clones>>
    /\ UNCHANGED execVars /\ UNCHANGED bridgeVars /\ UNCHANGED setupVars

\* if self.task_queue.is_empty()
SleepCheck ==
    /\ pc = "sleep_check" /\ fatal = "none"
    /\ pc' = IF task_queue = <<>> THEN "sleep_hlt" ELSE "sleep_enable"
    /\ UNCHANGED <<intEnabled, fatal, clones>>
    /\ UNCHANGED execVars /\ UNCHANGED bridgeVars /\ UNCHANGED setupVars

\* enable_and_hlt(): sti; hlt, with no interrupt accepted between the two.
EnableAndHlt ==
    /\ pc = "sleep_hlt" /\ fatal = "none"
    /\ intEnabled' = TRUE
    /\ pc' = "halted"
    /\ UNCHANGED <<fatal, clones>>
    /\ UNCHANGED execVars /\ UNCHANGED bridgeVars /\ UNCHANGED setupVars

\* Faulty sleep_if_idle: no else branch, the non-empty queue is drained with
\* interrupts still disabled.
SleepEnable_NoEnable ==
    /\ pc = "sleep_enable" /\ fatal = "none"
    /\ intEnabled' = intEnabled
    /\ pc' = "drain"
    /\ UNCHANGED <<fatal, clones>>
    /\ UNCHANGED execVars /\ UNCHANGED bridgeVars /\ UNCHANGED setupVars

\* interrupts::enable(), and run loops to run_ready_tasks.
SleepEnable ==
    /\ pc = "sleep_enable" /\ fatal = "none"
    /\ intEnabled' = TRUE
    /\ pc' = "drain"
    /\ UNCHANGED <<fatal, clones>>
    /\ UNCHANGED execVars /\ UNCHANGED bridgeVars /\ UNCHANGED setupVars

\* ---- interrupt context ---------------------------------------------------------
\* An interrupt is accepted only while the interrupt flag is set; its handler
\* runs to completion before the main thread goes on, and its return ends a hlt
\* (sleep_if_idle returns and run loops to run_ready_tasks). A handler that
\* panics does not return.
InterruptEntry == intEnabled /\ fatal = "none"
InterruptReturn == pc' = IF pc = "halted" /\ fatal' = "none" THEN "drain" ELSE pc

\* The wake handles of the ids in `ids` were invoked once each.
Credited(c, ids) == [id \in DOMAIN c |-> IF id \in ids THEN c[id] + 1 ELSE c[id]]

\* Faulty notifier: the registered waker is taken and dropped, never invoked.
AtomicWakerWake_NoWake(slot, q) ==
    [WAKER |-> None, task_queue |-> q, fatal |-> "none", push |-> None]

\* AtomicWaker::wake: take the registered waker, if any, and invoke it.
AtomicWakerWake(slot, q) ==
    IF slot = None THEN [WAKER |-> None, task_queue |-> q, fatal |-> "none", push |-> None]
    ELSE LET r == wake_task(q, slot[1].task_id) IN
         [WAKER |-> None, task_queue |-> r.task_queue, fatal |-> r.fatal,
          push |-> Some(slot[1].task_id)]

\* add_scancode(scancode), from the keyboard interrupt handler.
add_scancode(scancode) ==
    /\ InterruptEntry
    /\ Len(posted) + Len(log) < MaxPosts
    /\ IF ~TryGet(scq_init)
         THEN /\ log' = Append(log, "scancode queue uninitialized")
              /\ UNCHANGED <<scancode_queue, posted, WAKER, task_queue, fatal, woken, credit>>
         ELSE LET r == ArrayQueuePush(scancode_queue, ScancodeQueueCap, scancode) IN
              IF ~r.ok
                THEN /\ log' = Append(log, "scancode queue full")
                     /\ UNCHANGED <<scancode_queue, posted, WAKER, task_queue, fatal, woken, credit>>
                ELSE LET w == AtomicWakerWake(WAKER, task_queue) IN
                     /\ scancode_queue' = r.q
                     /\ posted' = Append(posted, scancode)
                     /\ WAKER' = w.WAKER
                     /\ task_queue' = w.task_queue
                     /\ fatal' = w.fatal
                     /\ woken' = woken \cup Range(w.push)
                     /\ credit' = Credited(credit, Range(w.push))
                     /\ log' = log
    /\ InterruptReturn
    /\ UNCHANGED <<tasks, waker_cache, cur, pollOrder, completed, skipped, made>>
    /\ UNCHANGED <<scq_init, consumed, intEnabled, clones>>
    /\ UNCHANGED setupVars

\* Faulty wake: the invocation also drops the task's waker from waker_cache.
WakeClone_Uncache(w) ==
    /\ InterruptEntry
    /\ w \in clones
    /\ LET r == wake_task(task_queue, w.task_id) IN
        /\ task_queue' = r.task_queue
        /\ fatal' = r.fatal
    /\ woken' = woken \cup {w.task_id}
    /\ credit' = Credited(credit, {w.task_id})
    /\ waker_cache' = Without(waker_cache, w.task_id)
    /\ InterruptReturn
    /\ UNCHANGED <<tasks, cur, pollOrder, completed, skipped, made>>
    /\ UNCHANGED <<intEnabled, clones>>
    /\ UNCHANGED bridgeVars /\ UNCHANGED setupVars

\* An interrupt handler invokes a waker clone it was handed (Wake::wake_by_ref).
WakeClone(w) ==
    /\ InterruptEntry
    /\ w \in clones
    /\ LET r == wake_task(task_queue, w.task_id) IN
        /\ task_queue' = r.task_queue
        /\ fatal' = r.fatal
    /\ woken' = woken \cup {w.task_id}
    /\ credit' = Credited(credit, {w.task_id})
    /\ InterruptReturn
    /\ UNCHANGED <<tasks, waker_cache, cur, pollOrder, completed, skipped, made>>
    /\ UNCHANGED <<intEnabled, clones>>
    /\ UNCHANGED bridgeVars /\ UNCHANGED setupVars

\* ---- the system ----------------------------------------------------------------
TaskIds == 0..(IdSpace - 1)
Wakers == {TaskWakerNew(i) : i \in TaskIds}

Setup == (\E k \in Kinds : TaskNew(k)) \/ (\E id \in TaskIds : Spawn(id)) \/ Run

Executor ==
    \/ DrainEmpty \/ PopStale \/ PopPoll
    \/ PollReady \/ PollPending
    \/ StreamNew \/ PollNextFast \/ PollNextRegister \/ PollNextRecheck \/ PollNextTake
    \/ SleepDisable \/ SleepCheck \/ EnableAndHlt \/ SleepEnable

Interrupt == (\E b \in Scancodes : add_scancode(b)) \/ (\E w \in Wakers : WakeClone(w))

Next == Setup \/ Executor \/ Interrupt

Spec == Init /\ [][Next]_vars

\* The CPU keeps executing the main thread; interrupts come or not.
FairSpec == Spec /\ WF_vars(Executor)

\* ---- poll_next on its own -----------------------------------------------------
\* poll_next takes any ScancodeStream and reads the static SCANCODE_QUEUE in
\* whatever state it is: here the executor polls task 0, whose future holds
\* a stream, with the queue initialized or not. (Streams made by
\* ScancodeStream::new, the only constructor, always find it initialized.)
StreamInit ==
    /\ NEXT_ID = 1
    /\ created = <<>>
    /\ tasks = (0 :> [kind |-> "keyboard", at |-> "next"])
    /\ task_queue = <<>>
    /\ waker_cache = (0 :> TaskWakerNew(0))
    /\ clones = {}
    /\ scq_init \in BOOLEAN
    /\ scancode_queue = <<>>
    /\ WAKER = None
    /\ intEnabled = TRUE
    /\ pc = "poll"
    /\ cur = Some(0)
    /\ fatal = "none"
    /\ log = <<>>
    /\ posted = <<>>
    /\ consumed = <<>>
    /\ spawnOrder = <<0>>
    /\ pollOrder = <<0>>
    /\ completed = {}
    /\ skipped = {}
    /\ woken = {}
    /\ credit = (0 :> 0)
    /\ made = (0 :> 1)

StreamNext ==
    \/ PollNextFast \/ PollNextRegister \/ PollNextRecheck \/ PollNextTake
    \/ DrainEmpty \/ PopPoll
    \/ SleepDisable \/ SleepCheck \/ EnableAndHlt \/ SleepEnable
    \/ \E b \in Scancodes : add_scancode(b)

StreamSpec == StreamInit /\ [][StreamNext]_vars

\* ---- TaskId::new after any number of calls --------------------------------------
\* main has already called Task::new some number of times and dropped those
\* tasks, having spawned the very first one (id 0) or none: NEXT_ID is
\* whatever fetch_add left, which after 2^64 calls is 0 again.
IdInit ==
    /\ NEXT_ID \in TaskIds
    /\ created = <<>>
    /\ \/ tasks = <<>> /\ task_queue = <<>> /\ spawnOrder = <<>>
       \/ /\ tasks = (0 :> [kind |-> "future", at |-> "start"])
          /\ task_queue = <<0>>
          /\ spawnOrder = <<0>>
    /\ waker_cache = <<>>
    /\ clones = {}
    /\ scq_init = FALSE
    /\ scancode_queue = <<>>
    /\ WAKER = None
    /\ intEnabled = TRUE
    /\ pc = "setup"
    /\ cur = None
    /\ fatal = "none"
    /\ log = <<>>
    /\ posted = <<>>
    /\ consumed = <<>>
    /\ pollOrder = <<>>
    /\ completed = {}
    /\ skipped = {}
    /\ woken = {}
    /\ credit = [id \in DOMAIN tasks |-> 1]
    /\ made = <<>>

IdSpec == IdInit /\ [][Next]_vars

\* ---- properties -------------------------------------------------------------------
Live(id) == id \in DOMAIN tasks
Polling(id) == pc = "poll" /\ cur = Some(id)
Parked(id) == Live(id) /\ tasks[id].at \in {"suspended", "parked"} /\ ~Polling(id)
Consumers == {id \in DOMAIN tasks : tasks[id].kind = "keyboard"}
QueueFull == Len(task_queue) = TaskQueueCap
PostStep == \E b \in Scancodes : add_scancode(b)

Count(q, id) == Cardinality({i \in 1..Len(q) : q[i] = id})
WakeStep(id) ==
    \/ WakeClone(TaskWakerNew(id))
    \/ PostStep /\ scq_init /\ Len(scancode_queue) < ScancodeQueueCap
                /\ WAKER = Some(TaskWakerNew(id))

\* A poll_next is between its registration of the waker and its return.
MidGetNext ==
    \E id \in Consumers : Polling(id) /\ tasks[id].at \in {"register", "recheck", "take"}

\* C1: the executor is never halted (nor past the emptiness check on its way to
\* the halt) while the ready-queue holds a task id.
C1_NoHaltWhileReady ==
    pc \in {"sleep_hlt", "halted"} => task_queue = <<>>

\* C1 witness: a wake arrived between the end of the drain pass and the
\* emptiness check, and the check saw it: the executor falls through.
C1_Witness ==
    pc = "sleep_enable" /\ task_queue # <<>> /\ woken # {}

\* C2 as stated: whenever the consumer is parked and the event queue is
\* non-empty, the consumer's id is in the ready-queue.
C2_ParkedConsumerScheduled ==
    \A id \in Consumers :
        (tasks[id].at = "parked" /\ ~Polling(id) /\ scancode_queue # <<>>)
            => id \in Range(task_queue)

\* C2 amended: the same, as long as no panic has stopped the kernel.
C2_ParkedConsumerScheduledUnlessFatal ==
    fatal = "none" => C2_ParkedConsumerScheduled

\* C2 witness: the consumer is parked, an event is queued, and its id waits
\* in the ready-queue.
C2_Witness ==
    /\ fatal = "none"
    /\ \E id \in Consumers :
        /\ tasks[id].at = "parked" /\ ~Polling(id)
        /\ scancode_queue # <<>>
        /\ id \in Range(task_queue)

\* C3: a task that returned Poll::Pending and whose wake handle was invoked
\* since its last poll began is polled again, unless a panic (a push on the
\* full ready-queue, a poll that does not return) stops the kernel.
C3_WokenIsPolled ==
    \A id \in TaskIds :
        (Parked(id) /\ id \in woken) ~> (id \notin woken \/ fatal # "none")

\* C3 witness: a task that had returned Poll::Pending is being polled again.
C3_Witness ==
    \E id \in DOMAIN tasks :
        Polling(id) /\ tasks[id].kind = "future" /\ tasks[id].at = "suspended"

\* C4: the scancodes returned so far are a prefix of the scancodes pushed
\* successfully, and the rest of them is exactly what the queue holds.
C4_ConsumedPrefixOfPosted ==
    /\ IsPrefix(consumed, posted)
    /\ posted = consumed \o scancode_queue

\* C4 witness: two different scancodes were returned.
C4_Witness ==
    Len(consumed) >= 2 /\ consumed[1] # consumed[2]

\* C5: every scancode pushed successfully is eventually returned by
\* poll_next, unless a panic stops the kernel.
C5_PostedIsConsumed ==
    \A k \in 1..MaxPosts :
        (Len(posted) >= k) ~> (Len(consumed) >= k \/ fatal # "none")

\* C5 witness: the consumer, parked on the empty queue, is polled again with
\* the triggering scancode waiting.
C5_Witness ==
    \E id \in Consumers :
        Polling(id) /\ tasks[id].at = "parked" /\ scancode_queue # <<>>

\* C6: add_scancode on the full scancode queue leaves the queue (and what was
\* accepted) unchanged, prints exactly one diagnostic, wakes nobody and does
\* not panic.
C6_OverflowDrops ==
    [][(PostStep /\ scq_init /\ Len(scancode_queue) = ScancodeQueueCap)
        => /\ scancode_queue' = scancode_queue
           /\ posted' = posted
           /\ log' = Append(log, "scancode queue full")
           /\ UNCHANGED <<WAKER, task_queue, woken>>
           /\ fatal' = "none"]_vars

\* C6 witness: a scancode was dropped and the queue is still at capacity.
C6_Witness ==
    /\ \E i \in 1..Len(log) : log[i] = "scancode queue full"
    /\ Len(scancode_queue) = ScancodeQueueCap

\* C7: a completed task is in neither the task mapping nor the waker cache
\* and is never polled again.
C7_CompletedStaysRetired ==
    \A id \in completed :
        /\ id \notin DOMAIN tasks
        /\ id \notin DOMAIN waker_cache
        /\ cur # Some(id)

\* C7 witness: a wake of a completed task was popped and skipped.
C7_Witness ==
    \E id \in completed : id \in skipped

\* A step that pushes a task id onto the ready-queue: spawn of a new id, the
\* invocation of a waker clone, add_scancode that finds a waker registered.
PushStep ==
    \/ \E id \in TaskIds : Spawn(id) /\ id \notin DOMAIN tasks
    \/ \E w \in Wakers : WakeClone(w)
    \/ PostStep /\ scq_init /\ Len(scancode_queue) < ScancodeQueueCap /\ WAKER # None

\* C8: a push onto the full ready-queue panics; nothing is dropped silently.
C8_FullReadyQueueIsFatal ==
    [][(PushStep /\ QueueFull)
        => fatal' \in {"queue full", "task_queue full"}]_vars

\* C8 witness: spawn found the ready-queue full.
C8_Witness ==
    fatal = "queue full" /\ QueueFull

\* C9: first polls happen in the order of the spawns.
C9_FirstPollsInSpawnOrder ==
    IsPrefix(pollOrder, spawnOrder)

\* C9 witness: the second spawned task has the smaller id and is polled first
\* while the first one, woken in between, waits behind it in the queue.
C9_Witness ==
    /\ Len(pollOrder) = 2
    /\ spawnOrder[1] > spawnOrder[2]
    /\ Polling(pollOrder[2])
    /\ pollOrder[1] \in Range(task_queue)

\* C10: add_scancode before the scancode queue is initialized prints one
\* diagnostic and does nothing else.
C10_PostBeforeInitIsNoOp ==
    [][(PostStep /\ ~scq_init)
        => /\ scq_init' = FALSE
           /\ scancode_queue' = scancode_queue
           /\ posted' = posted
           /\ log' = Append(log, "scancode queue uninitialized")
           /\ UNCHANGED <<WAKER, task_queue, woken>>
           /\ fatal' = "none"]_vars

\* C10 witness: a scancode arrived before ScancodeStream::new.
C10_Witness ==
    /\ ~scq_init
    /\ \E i \in 1..Len(log) : log[i] = "scancode queue uninitialized"


C11_UnreachableThroughNew ==
    fatal # "scancode queue not initialized"


\* C12: the scancode queue is initialized once, by the first
\* ScancodeStream::new and by nothing else (add_scancode never does), and stays
\* initialized; ScancodeStream::new on the initialized queue panics and leaves
\* the queue and the scancodes in it as they are.
C12_InitializedOnceByNew ==
    [][/\ (scq_init' # scq_init) => (StreamNew /\ ~scq_init /\ scq_init'
                                        /\ scancode_queue' = <<>> /\ fatal' = "none")
       /\ PostStep => scq_init' = scq_init
       /\ (StreamNew /\ scq_init)
            => /\ fatal' = "ScancodeStream::new should only be called once"
               /\ UNCHANGED <<scq_init, scancode_queue, posted, consumed, WAKER>>]_vars

\* C12 witness: a second ScancodeStream::new panicked with a scancode waiting.
C12_Witness ==
    /\ fatal = "ScancodeStream::new should only be called once"
    /\ scq_init /\ scancode_queue # <<>>


\* C13: each Task::new returns an id greater than every id returned before
\* (the counter only grows) and in use by no task created or spawned so far,
\* so spawn never panics on a duplicate id.
C13_IdsIncreaseNeverReused ==
    [][/\ (\E k \in Kinds : TaskNew(k))
            => /\ NEXT_ID' > NEXT_ID
               /\ NEXT_ID \notin DOMAIN created \cup DOMAIN tasks \cup Range(spawnOrder)
       /\ (\E id \in TaskIds : Spawn(id))
            => fatal' # "task with same ID already in tasks"]_vars


\* C14: an invocation of a wake handle that does not panic appends the id the
\* handle is bound to, once, at the tail of the ready-queue, and leaves tasks,
\* waker_cache and (but for the scancode add_scancode has just pushed) the
\* scancode queue as they were; nothing but a wake or a spawn of an id adds an
\* entry for it, so N wakes leave at most N entries.
C14_WakeAppendsOneEntry ==
    [][\A id \in TaskIds :
        /\ (WakeStep(id) /\ fatal' = "none")
             => /\ task_queue' = Append(task_queue, id)
                /\ UNCHANGED <<tasks, waker_cache>>
                /\ \/ scancode_queue' = scancode_queue
                   \/ PostStep /\ \E b \in Scancodes :
                                    scancode_queue' = Append(scancode_queue, b)
        /\ Count(task_queue', id) > Count(task_queue, id)
             => /\ WakeStep(id) \/ Spawn(id)
                /\ Count(task_queue', id) = Count(task_queue, id) + 1]_vars

\* C14 witness: a suspended task was woken twice before its next poll and the
\* ready-queue holds its id twice.
C14_Witness ==
    \E id \in DOMAIN tasks :
        Parked(id) /\ id \in woken /\ task_queue = <<id, id>> /\ fatal = "none"


C16_PollsBoundedByWakes ==
    /\ [](\A id \in DOMAIN credit : credit[id] >= 0)
    /\ [][/\ (pc # "poll" /\ pc' = "poll")
                => /\ task_queue # <<>>
                   /\ cur' = Some(Head(task_queue))
                   /\ task_queue' = Tail(task_queue)
          /\ (pc = "poll" /\ pc' = "drain" /\ cur[1] \in DOMAIN tasks')
                => /\ cur[1] \in DOMAIN waker_cache'
                   /\ waker_cache' = waker_cache
                   /\ cur[1] \notin completed']_vars

\* C16 witness: a task woken once is in its second poll, its id no longer in
\* the ready-queue: it has used up its spawn and its one wake.
C16_Witness ==
    \E id \in DOMAIN tasks :
        /\ Polling(id) /\ tasks[id].at \in {"suspended", "parked"}
        /\ credit[id] = 0 /\ id \notin Range(task_queue)


\* C17: a step in interrupt context (add_scancode with the wake it triggers,
\* the invocation of a waker clone) leaves tasks and waker_cache unchanged,
\* and with them everything but the scancode queue, the WAKER slot, the
\* ready-queue, the diagnostics and the outcome (a panic, the end of a hlt).
C17_InterruptsLeaveMapsAlone ==
    [][Interrupt => UNCHANGED <<tasks, waker_cache, cur, NEXT_ID, created, scq_init,
                                intEnabled, consumed>>]_vars

\* C17 witness: the wake handle of a task was invoked while that very task
\* was being polled, its cached waker in place.
C17_Witness ==
    \E id \in DOMAIN waker_cache :
        Polling(id) /\ id \in woken /\ id \in Range(task_queue)


\* C18: interrupts are disabled only from interrupts::disable() to the end of
\* the emptiness check; both branches of sleep_if_idle leave with interrupts
\* enabled, so they are enabled during setup, every drain pass, every poll
\* and the halt.
C18_DisabledOnlyAroundCheck ==
    /\ [](~intEnabled <=> pc \in {"sleep_check", "sleep_hlt", "sleep_enable"})
    /\ [][(pc \in {"sleep_hlt", "sleep_enable"} /\ pc' # pc)
            => (intEnabled' /\ pc' \in {"halted", "drain"})]_vars

\* C18 witness: the emptiness check found an id in the queue and interrupts
\* are still disabled, on the branch that re-enables them and falls through.
C18_Witness ==
    ~intEnabled /\ pc = "sleep_enable" /\ task_queue # <<>> /\ fatal = "none"


\* C19: TaskWaker::new is called at most once for a task, when its first poll
\* begins; every later poll finds the waker in waker_cache and leaves the
\* cache as it is; a cached waker is bound to the id it is cached under.
C19_WakerBuiltOncePerTask ==
    /\ [](\A id \in DOMAIN made : made[id] = 1)
    /\ [](\A id \in DOMAIN waker_cache : waker_cache[id] = TaskWakerNew(id))
    /\ [][/\ made' # made
                => /\ pc # "poll" /\ pc' = "poll"
                   /\ cur'[1] \notin Range(pollOrder)
                   /\ made' = (cur'[1] :> 1) @@ made
          /\ (pc # "poll" /\ pc' = "poll" /\ cur'[1] \in Range(pollOrder))
                => /\ waker_cache' = waker_cache
                   /\ made' = made]_vars

\* C19 witness: the keyboard task, parked earlier, is polled again with the
\* waker of its first poll.
C19_Witness ==
    \E id \in Consumers :
        /\ Polling(id) /\ tasks[id].at = "parked"
        /\ made[id] = 1 /\ waker_cache[id] = TaskWakerNew(id)


\* C20: outside poll_next's window from the registration to its return, a
\* waker in the WAKER slot means the scancode queue is empty: every successful
\* push of add_scancode leaves the slot empty, and a poll_next whose second pop
\* got a scancode empties the slot before it returns.
C20_RegisteredMeansEmpty ==
    /\ []((WAKER # None /\ ~MidGetNext) => scancode_queue = <<>>)
    /\ [][/\ (PostStep /\ posted' # posted) => WAKER' = None
          /\ \A id \in Consumers :
                (tasks[id].at = "take" /\ tasks'[id].at # "take") => WAKER' = None]_vars

\* C20 witness: the consumer has returned scancodes and is parked again, its
\* waker registered anew and the queue empty.
C20_Witness ==
    \E id \in Consumers :
        /\ Parked(id) /\ WAKER = Some(waker_cache[id])
        /\ scancode_queue = <<>> /\ consumed # <<>>

=============================================================================
